---------------------------- MODULE Spec2Model ----------------------------
(***************************************************************************)
(* SecureStorage (src/src/index.ts): a facade over a Web Storage object    *)
(* that hashes keys, JSON-serialises values and encrypts the serialised    *)
(* text.  The model holds one shared backing store, two facade instances   *)
(* with their own hash / encrypt / decrypt functions, and an external      *)
(* actor that touches the backing store directly.                          *)
(*                                                                         *)
(* Texts (serialised values, cipher texts) are sequences of one-character  *)
(* strings; keys are strings.                                              *)
(***************************************************************************)
EXTENDS Integers, Sequences, FiniteSets, TLC

(***************************************************************************)
(* JavaScript values: a tag and a payload under a field of its own.         *)
(***************************************************************************)
JNull == [t |-> "null"]
JNaN == [t |-> "nan"]
JBool(b) == [t |-> "bool", b |-> b]
JNum(n) == [t |-> "num", n |-> n]
JStr(s) == [t |-> "str", s |-> s]
JArr(a) == [t |-> "arr", a |-> a]
JObj(o) == [t |-> "obj", o |-> o]

Digits == <<"0", "1", "2", "3", "4", "5", "6", "7", "8", "9">>
Letters == {"a", "b", "h", "i", "x", "y"}

RECURSIVE JoinComma(_)
JoinComma(ss) ==
  IF ss = <<>> THEN <<>>
  ELSE IF Len(ss) = 1 THEN Head(ss)
  ELSE Head(ss) \o <<",">> \o JoinComma(Tail(ss))

Quote(s) == <<"\"">> \o s \o <<"\"">>

(***************************************************************************)
(* JSON.stringify for the JSON data model (no indentation argument): null, *)
(* booleans, one-digit numbers, strings of letters, arrays, and objects as *)
(* ordered <<name, value>> members.  NaN serialises to null.                *)
(***************************************************************************)
RECURSIVE Stringify(_)
Stringify(val) ==
  CASE val.t = "null" -> <<"n", "u", "l", "l">>
    [] val.t = "nan" -> <<"n", "u", "l", "l">>
    [] val.t = "bool" -> IF val.b THEN <<"t", "r", "u", "e">>
                         ELSE <<"f", "a", "l", "s", "e">>
    [] val.t = "num" -> <<Digits[val.n + 1]>>
    [] val.t = "str" -> Quote(val.s)
    [] val.t = "arr" ->
         <<"[">> \o JoinComma([i \in DOMAIN val.a |-> Stringify(val.a[i])]) \o <<"]">>
    [] val.t = "obj" ->
         <<"{">>
           \o JoinComma([i \in DOMAIN val.o |->
                Quote(val.o[i][1]) \o <<":">> \o Stringify(val.o[i][2])])
           \o <<"}">>

(***************************************************************************)
(* JSON.parse as a recursive-descent parser.  A parse step yields          *)
(* [ok, val, rest]; the text is valid when a value is read and nothing     *)
(* remains.                                                                 *)
(***************************************************************************)
Bad == [ok |-> FALSE, val |-> JNull, rest |-> <<>>]
Good(val, rest) == [ok |-> TRUE, val |-> val, rest |-> rest]

StartsWith(s, p) == Len(s) >= Len(p) /\ SubSeq(s, 1, Len(p)) = p
Drop(s, n) == SubSeq(s, n + 1, Len(s))

DigitValue(c) == CHOOSE n \in 0..9 : Digits[n + 1] = c
IsDigit(c) == \E n \in 0..9 : Digits[n + 1] = c

RECURSIVE ParseChars(_, _)
\* the characters of a string literal after its opening quote
ParseChars(s, acc) ==
  IF s = <<>> THEN Bad
  ELSE IF Head(s) = "\"" THEN Good(JStr(acc), Tail(s))
  ELSE IF Head(s) \in Letters THEN ParseChars(Tail(s), Append(acc, Head(s)))
  ELSE Bad

RECURSIVE ParseValue(_), ParseElements(_, _), ParseMembers(_, _)
ParseValue(s) ==
  IF s = <<>> THEN Bad
  ELSE IF StartsWith(s, <<"n", "u", "l", "l">>) THEN Good(JNull, Drop(s, 4))
  ELSE IF StartsWith(s, <<"t", "r", "u", "e">>) THEN Good(JBool(TRUE), Drop(s, 4))
  ELSE IF StartsWith(s, <<"f", "a", "l", "s", "e">>) THEN Good(JBool(FALSE), Drop(s, 5))
  ELSE IF IsDigit(Head(s)) THEN Good(JNum(DigitValue(Head(s))), Tail(s))
  ELSE IF Head(s) = "\"" THEN ParseChars(Tail(s), <<>>)
  ELSE IF Head(s) = "[" THEN
    IF StartsWith(s, <<"[", "]">>) THEN Good(JArr(<<>>), Drop(s, 2))
    ELSE ParseElements(Tail(s), <<>>)
  ELSE IF Head(s) = "{" THEN
    IF StartsWith(s, <<"{", "}">>) THEN Good(JObj(<<>>), Drop(s, 2))
    ELSE ParseMembers(Tail(s), <<>>)
  ELSE Bad

ParseElements(s, acc) ==
  LET e == ParseValue(s) IN
  IF ~e.ok \/ e.rest = <<>> THEN Bad
  ELSE IF Head(e.rest) = "," THEN ParseElements(Tail(e.rest), Append(acc, e.val))
  ELSE IF Head(e.rest) = "]" THEN Good(JArr(Append(acc, e.val)), Tail(e.rest))
  ELSE Bad

ParseMembers(s, acc) ==
  IF s = <<>> \/ Head(s) # "\"" THEN Bad
  ELSE
    LET name == ParseChars(Tail(s), <<>>) IN
    IF ~name.ok \/ name.rest = <<>> \/ Head(name.rest) # ":" THEN Bad
    ELSE
      LET e == ParseValue(Tail(name.rest)) IN
      IF ~e.ok \/ e.rest = <<>> THEN Bad
      ELSE IF Head(e.rest) = "," THEN
        ParseMembers(Tail(e.rest), Append(acc, <<name.val.s, e.val>>))
      ELSE IF Head(e.rest) = "}" THEN
        Good(JObj(Append(acc, <<name.val.s, e.val>>)), Tail(e.rest))
      ELSE Bad

\* JSON.parse(text): [ok, val]; ~ok is a SyntaxError
Parse(text) ==
  LET r == ParseValue(text) IN
  IF r.ok /\ r.rest = <<>> THEN [ok |-> TRUE, val |-> r.val]
  ELSE [ok |-> FALSE, val |-> JNull]

(***************************************************************************)
(* The functions a caller may pass as options.hash / options.encrypt /     *)
(* options.decrypt.  Each application yields [ok, out]; ~ok is a throw.    *)
(***************************************************************************)
Applied(out) == [ok |-> TRUE, out |-> out]
Thrown(out) == [ok |-> FALSE, out |-> out]

\* the pass-through default
through(data) == data

\* case folding: idempotent, and "A" and "a" share a physical key
Fold(k) ==
  CASE k = "A" -> "a"
    [] k = "A#" -> "a#"
    [] k = "A##" -> "a##"
    [] OTHER -> k

\* a suffixing hash: injective, never idempotent
Salt(k) == k \o "#"

HashKinds == {"through", "fold", "salt", "strict"}

ApplyHash(kind, k) ==
  CASE kind = "through" -> Applied(through(k))
    [] kind = "fold" -> Applied(Fold(k))
    [] kind = "salt" -> Applied(Salt(k))
    \* a validating hash: rejects the key "A", passes the others through
    [] kind = "strict" -> IF k = "A" THEN Thrown("") ELSE Applied(k)

RotL(text) == IF text = <<>> THEN <<>> ELSE Append(Tail(text), Head(text))
RotR(text) ==
  IF text = <<>> THEN <<>>
  ELSE <<text[Len(text)]>> \o SubSeq(text, 1, Len(text) - 1)

CipherKinds == {"through", "rot", "mismatch", "encfail", "decfail"}

ApplyEncrypt(kind, text) ==
  CASE kind = "through" -> Applied(through(text))
    [] kind = "rot" -> Applied(RotL(text))
    [] kind = "mismatch" -> Applied(RotL(text))
    [] kind = "encfail" -> Thrown(<<>>)
    [] kind = "decfail" -> Applied(through(text))

ApplyDecrypt(kind, text) ==
  CASE kind = "through" -> Applied(through(text))
    [] kind = "rot" -> Applied(RotR(text))
    \* decrypt left at its default while encrypt is set
    [] kind = "mismatch" -> Applied(through(text))
    [] kind = "encfail" -> Applied(through(text))
    [] kind = "decfail" -> Thrown(<<>>)

(***************************************************************************)
(* The backing store: a Web Storage object, an ordered list of             *)
(* [key, value] entries with at most one entry per key.                    *)
(***************************************************************************)
Quota == 2

Found(x) == [found |-> TRUE, it |-> x]
NullText == [found |-> FALSE, it |-> <<>>]
NullKey == [found |-> FALSE, it |-> ""]

StorageKeys(s) == {s[n].key : n \in DOMAIN s}

StorageLength(s) == Len(s)

\* Storage.key(n), n counted from 0
StorageKey(s, n) == IF n >= 0 /\ n < Len(s) THEN Found(s[n + 1].key) ELSE NullKey

StorageGetItem(s, k) ==
  IF k \in StorageKeys(s)
  THEN Found((CHOOSE e \in {s[n] : n \in DOMAIN s} : e.key = k).value)
  ELSE NullText

\* Storage.setItem: [ok, store]; ~ok is a QuotaExceededError and no change
StorageSetItem(s, k, text) ==
  IF k \in StorageKeys(s)
  THEN [ok |-> TRUE,
        store |-> [n \in DOMAIN s |->
                     IF s[n].key = k THEN [key |-> k, value |-> text] ELSE s[n]]]
  ELSE IF Len(s) >= Quota THEN [ok |-> FALSE, store |-> s]
  ELSE [ok |-> TRUE, store |-> Append(s, [key |-> k, value |-> text])]

StorageRemoveItem(s, k) == SelectSeq(s, LAMBDA e : e.key # k)

StorageClear(s) == <<>>

(***************************************************************************)
(* The facade's methods, as functions of the instance's options c and the  *)
(* backing store s.  A call's outcome is a return or a throw.              *)
(***************************************************************************)
JUndefined == [t |-> "undefined"]
Return(val) == [kind |-> "return", value |-> val, error |-> ""]
Throw(err) == [kind |-> "throw", value |-> JUndefined, error |-> err]
Call(s, res) == [store |-> s, result |-> res]

Hash(c, key) == ApplyHash(c.hash, key)
Encrypt(c, text) == ApplyEncrypt(c.cipher, text)
Decrypt(c, text) == ApplyDecrypt(c.cipher, text)

\* getItem with a catch around decrypt and JSON.parse that yields null
getItemLenient(c, s, key) ==
  LET hashedKey == Hash(c, key) IN
  IF ~hashedKey.ok THEN Throw("hash")
  ELSE
    LET value == StorageGetItem(s, hashedKey.out) IN
    IF ~value.found THEN Return(JNull)
    ELSE
      LET decryptedValue == Decrypt(c, value.it) IN
      IF ~decryptedValue.ok THEN Return(JNull)
      ELSE
        LET parsed == Parse(decryptedValue.out) IN
        IF ~parsed.ok THEN Return(JNull) ELSE Return(parsed.val)

getItem(c, s, key) ==
  LET hashedKey == Hash(c, key) IN
  IF ~hashedKey.ok THEN Throw("hash")
  ELSE
    LET value == StorageGetItem(s, hashedKey.out) IN
    IF ~value.found THEN Return(JNull)
    ELSE
      LET decryptedValue == Decrypt(c, value.it) IN
      IF ~decryptedValue.ok THEN Throw("decrypt")
      ELSE
        LET parsed == Parse(decryptedValue.out) IN
        IF ~parsed.ok THEN Throw("SyntaxError") ELSE Return(parsed.val)

\* setItem that stores the serialised value without encrypting it
setItemPlain(c, s, key, value) ==
  LET hashedKey == Hash(c, key) IN
  IF ~hashedKey.ok THEN Call(s, Throw("hash"))
  ELSE
    LET stringifiedValue == Stringify(value)
        encryptedValue == Encrypt(c, stringifiedValue)
    IN
    IF ~encryptedValue.ok THEN Call(s, Throw("encrypt"))
    ELSE
      LET put == StorageSetItem(s, hashedKey.out, stringifiedValue) IN
      IF ~put.ok THEN Call(s, Throw("QuotaExceededError"))
      ELSE Call(put.store, Return(JUndefined))

\* setItem that stores under the logical key instead of the hashed key
setItemRawKey(c, s, key, value) ==
  LET hashedKey == Hash(c, key) IN
  IF ~hashedKey.ok THEN Call(s, Throw("hash"))
  ELSE
    LET stringifiedValue == Stringify(value)
        encryptedValue == Encrypt(c, stringifiedValue)
    IN
    IF ~encryptedValue.ok THEN Call(s, Throw("encrypt"))
    ELSE
      LET put == StorageSetItem(s, key, encryptedValue.out) IN
      IF ~put.ok THEN Call(s, Throw("QuotaExceededError"))
      ELSE Call(put.store, Return(JUndefined))

setItem(c, s, key, value) ==
  LET hashedKey == Hash(c, key) IN
  IF ~hashedKey.ok THEN Call(s, Throw("hash"))
  ELSE
    LET stringifiedValue == Stringify(value)
        encryptedValue == Encrypt(c, stringifiedValue)
    IN
    IF ~encryptedValue.ok THEN Call(s, Throw("encrypt"))
    ELSE
      LET put == StorageSetItem(s, hashedKey.out, encryptedValue.out) IN
      IF ~put.ok THEN Call(s, Throw("QuotaExceededError"))
      ELSE Call(put.store, Return(JUndefined))

\* removeItem that removes the logical key instead of the hashed key
removeItemRaw(c, s, key) ==
  LET hashedKey == Hash(c, key) IN
  IF ~hashedKey.ok THEN Call(s, Throw("hash"))
  ELSE Call(StorageRemoveItem(s, key), Return(JUndefined))

\* removeItem that insists on an entry to remove
removeItemStrict(c, s, key) ==
  LET hashedKey == Hash(c, key) IN
  IF ~hashedKey.ok THEN Call(s, Throw("hash"))
  ELSE IF ~StorageGetItem(s, hashedKey.out).found THEN Call(s, Throw("absent"))
  ELSE Call(StorageRemoveItem(s, hashedKey.out), Return(JUndefined))

removeItem(c, s, key) ==
  LET hashedKey == Hash(c, key) IN
  IF ~hashedKey.ok THEN Call(s, Throw("hash"))
  ELSE Call(StorageRemoveItem(s, hashedKey.out), Return(JUndefined))

\* clear as a loop removing key(i) for i = 0, 1, ... while the entries shift
clearLoop(s) ==
  Call([n \in 1..(Len(s) \div 2) |-> s[2 * n]], Return(JUndefined))

clear(s) == Call(StorageClear(s), Return(JUndefined))

\* key that reads the position after the one asked for
keyOffByOne(s, id) == StorageKey(s, id + 1)

key(s, id) == StorageKey(s, id)

length(s) == StorageLength(s)

(***************************************************************************)
(* The state machine.                                                       *)
(***************************************************************************)
MaxRaces == 1

Inst == {1, 2}
Keys == {"a", "A", "a#"}

\* {"x":1,"y":[true,null]}, "hi", and NaN, which JSON cannot represent
ObjXY == JObj(<< <<<<"x">>, JNum(1)>>, <<<<"y">>, JArr(<<JBool(TRUE), JNull>>)>> >>)
StrHi == JStr(<<"h", "i">>)
Values == {ObjXY, StrHi, JNaN}

RECURSIVE JsonRepresentable(_)
JsonRepresentable(val) ==
  CASE val.t \in {"null", "bool", "num", "str"} -> TRUE
    [] val.t = "arr" -> \A n \in DOMAIN val.a : JsonRepresentable(val.a[n])
    [] val.t = "obj" -> \A n \in DOMAIN val.o : JsonRepresentable(val.o[n][2])
    [] OTHER -> FALSE

\* what the external actor writes: a key of its own and one the facade uses;
\* a text that is JSON and one that is not
ExtKeys == {"a", "z"}
ExtTexts == {<<"1">>, <<"h", "i">>}

Options == [hash : HashKinds, cipher : CipherKinds]
Defaults == [hash |-> "through", cipher |-> "through"]
Opt(h, c) == [hash |-> h, cipher |-> c]
\* pairs of instances that differ in hash, encrypt and decrypt
SharedOptions == {<<Defaults, Opt("salt", "rot")>>,
                  <<Opt("fold", "rot"), Defaults>>,
                  <<Opt("salt", "rot"), Opt("fold", "through")>>}
RaceOptions == {Defaults, Opt("fold", "rot"), Opt("salt", "rot"),
                Opt("through", "mismatch")}

VARIABLES
  cfg,       \* cfg[i]: the options instance i was constructed with
  store,     \* the backing store shared by the instances
  last,      \* the facade call that is running or has just ended, and its outcome
  before,    \* the backing store when that call started
  enum,      \* the position of a running keys() / values() / entries()
  scenario,  \* history: the logical entries one instance wrote, else "mixed"
  live       \* history: the physical keys written and not removed since

vars == <<cfg, store, last, before, enum, scenario, live>>

Pending == [kind |-> "pending", value |-> JUndefined, error |-> ""]
Record(op, i, k, val, res, ks) ==
  [op |-> op, inst |-> i, key |-> k, value |-> val, result |-> res, keys |-> ks]
NoCall == Record("none", 0, "", JUndefined, Pending, <<>>)

Idle == [pc |-> "idle", i |-> 0, keys |-> <<>>, out |-> <<>>, races |-> 0, gone |-> {}]

EmptyMap == [k \in {} |-> JNull]
Fresh == [state |-> "pure", owner |-> 0, map |-> EmptyMap, removed |-> FALSE]
Mixed == [state |-> "mixed", owner |-> 0, map |-> EmptyMap, removed |-> FALSE]
Known(ks) == [known |-> TRUE, keys |-> ks]
Unknown == [known |-> FALSE, keys |-> {}]

\* new SecureStorage(storage, options) for each instance, over an empty storage
Constructed(pairs) ==
  /\ cfg \in pairs
  /\ store = <<>>
  /\ last = NoCall
  /\ before = <<>>
  /\ enum = Idle
  /\ scenario = Fresh
  /\ live = Known({})

\* one instance with any options; the other is never called
Init == Constructed({<<o, Defaults>> : o \in Options})

\* two instances in use over the one storage
InitShared == Constructed(SharedOptions)

InitRaces == Constructed({<<o, Defaults>> : o \in RaceOptions})

\* the caller is between two calls
Ready == last = NoCall /\ enum = Idle

Without(f, k) == [x \in (DOMAIN f) \ {k} |-> f[x]]

WroteLogical(i, k, val) ==
  IF scenario.state = "pure" /\ scenario.owner \in {0, i}
  THEN [scenario EXCEPT !.owner = i, !.map = (k :> val) @@ scenario.map]
  ELSE Mixed

RemovedLogical(i, k) ==
  IF scenario.state = "pure" /\ scenario.owner = i
  THEN [scenario EXCEPT !.map = Without(scenario.map, k), !.removed = TRUE]
  ELSE IF scenario = Fresh THEN Fresh
  ELSE Mixed

GetItem(i, k) ==
  /\ Ready
  /\ last' = Record("getItem", i, k, JUndefined, getItem(cfg[i], store, k), <<>>)
  /\ before' = store
  /\ UNCHANGED <<cfg, store, enum, scenario, live>>

SetItem(i, k, val) ==
  /\ Ready
  /\ LET r == setItem(cfg[i], store, k, val) IN
       /\ store' = r.store
       /\ last' = Record("setItem", i, k, val, r.result, <<>>)
       /\ scenario' = IF r.result.kind = "return" THEN WroteLogical(i, k, val)
                      ELSE scenario
       /\ live' = IF r.result.kind = "return" /\ live.known
                  THEN Known(live.keys \cup {Hash(cfg[i], k).out})
                  ELSE live
  /\ before' = store
  /\ UNCHANGED <<cfg, enum>>

RemoveItem(i, k) ==
  /\ Ready
  /\ LET r == removeItem(cfg[i], store, k) IN
       /\ store' = r.store
       /\ last' = Record("removeItem", i, k, JUndefined, r.result, <<>>)
       /\ scenario' = IF r.result.kind = "return" THEN RemovedLogical(i, k)
                      ELSE scenario
       /\ live' = IF r.result.kind = "return" /\ live.known
                  THEN Known(live.keys \ {Hash(cfg[i], k).out})
                  ELSE live
  /\ before' = store
  /\ UNCHANGED <<cfg, enum>>

Clear(i) ==
  /\ Ready
  /\ LET r == clear(store) IN
       /\ store' = r.store
       /\ last' = Record("clear", i, "", JUndefined, r.result, <<>>)
  /\ before' = store
  /\ scenario' = Fresh
  /\ live' = Known({})
  /\ UNCHANGED <<cfg, enum>>

Length(i) ==
  /\ Ready
  /\ last' = Record("length", i, "", JUndefined, Return(JNum(length(store))), <<>>)
  /\ before' = store
  /\ UNCHANGED <<cfg, store, enum, scenario, live>>

KeyVal(k) == [t |-> "key", k |-> k]

KeyAt(i, n) ==
  /\ Ready
  /\ LET r == key(store, n) IN
       last' = Record("key", i, "", JNum(n),
                      Return(IF r.found THEN KeyVal(r.it) ELSE JNull), <<>>)
  /\ before' = store
  /\ UNCHANGED <<cfg, store, enum, scenario, live>>

(***************************************************************************)
(* keys(), values() and entries() read the backing store once per loop     *)
(* test, once per key(i) and once per getItem; the external actor may act  *)
(* between any two of these reads.                                          *)
(***************************************************************************)
EnumOps == {"keys", "values", "entries"}

\* the call starts: const keys = []; i = 0
Start(op, i) ==
  /\ Ready
  /\ enum' = [Idle EXCEPT !.pc = "test"]
  /\ last' = Record(op, i, "", JUndefined, Pending, <<>>)
  /\ before' = store
  /\ UNCHANGED <<cfg, store, scenario, live>>

Finish(res, ks) ==
  /\ last' = [last EXCEPT !.result = res, !.keys = ks]
  /\ enum' = [Idle EXCEPT !.races = enum.races, !.gone = enum.gone]

\* the loop test as i < this.length - 1
LoopTestShort ==
  /\ enum.pc = "test"
  /\ IF enum.i < length(store) - 1
     THEN /\ enum' = [enum EXCEPT !.pc = "fetch"]
          /\ UNCHANGED last
     ELSE IF last.op = "keys" \/ enum.keys = <<>>
     THEN Finish(Return(enum.keys), enum.keys)
     ELSE /\ enum' = [enum EXCEPT !.pc = "map"]
          /\ UNCHANGED last
  /\ UNCHANGED <<cfg, store, before, scenario, live>>

\* the loop test i < this.length; past the end, keys() returns
LoopTest ==
  /\ enum.pc = "test"
  /\ IF enum.i < length(store)
     THEN /\ enum' = [enum EXCEPT !.pc = "fetch"]
          /\ UNCHANGED last
     ELSE IF last.op = "keys" \/ enum.keys = <<>>
     THEN Finish(Return(enum.keys), enum.keys)
     ELSE /\ enum' = [enum EXCEPT !.pc = "map"]
          /\ UNCHANGED last
  /\ UNCHANGED <<cfg, store, before, scenario, live>>

\* the loop body: key = this.key(i); if (key !== null) keys.push(key); i++
LoopBody ==
  /\ enum.pc = "fetch"
  /\ LET r == key(store, enum.i) IN
       enum' = [enum EXCEPT !.pc = "test", !.i = enum.i + 1,
                            !.keys = IF r.found THEN Append(enum.keys, r.it)
                                     ELSE enum.keys]
  /\ UNCHANGED <<cfg, store, last, before, scenario, live>>

\* a callback that reads the entry at the physical key itself, without hashing it again
lookupPhysical(c, s, k) ==
  LET value == StorageGetItem(s, k) IN
  IF ~value.found THEN Return(JNull)
  ELSE
    LET decryptedValue == Decrypt(c, value.it) IN
    IF ~decryptedValue.ok THEN Throw("decrypt")
    ELSE
      LET parsed == Parse(decryptedValue.out) IN
      IF ~parsed.ok THEN Throw("SyntaxError") ELSE Return(parsed.val)

\* the callback values() and entries() map over the keys
lookup(c, s, k) == getItem(c, s, k)

Element(op, k, val) == IF op = "values" THEN val ELSE <<k, val>>

\* one callback of .map(): the next key's getItem; a throw ends the call
MapStep ==
  /\ enum.pc = "map"
  /\ LET k == enum.keys[Len(enum.out) + 1]
         r == lookup(cfg[last.inst], store, k)
         out == Append(enum.out, Element(last.op, k, r.value))
     IN IF r.kind = "throw" THEN Finish(r, enum.keys)
        ELSE IF Len(out) = Len(enum.keys) THEN Finish(Return(out), enum.keys)
        ELSE /\ enum' = [enum EXCEPT !.out = out]
             /\ UNCHANGED last
  /\ UNCHANGED <<cfg, store, before, scenario, live>>

(***************************************************************************)
(* The external actor: other code sharing the storage object.              *)
(***************************************************************************)
Running == enum.pc \in {"test", "fetch", "map"}

External(s) ==
  /\ Ready
  /\ store' = s
  /\ scenario' = Mixed
  /\ live' = Unknown
  /\ UNCHANGED <<cfg, last, before, enum>>

ExternalRemove(p) ==
  /\ p \in StorageKeys(store)
  /\ External(StorageRemoveItem(store, p))

ExternalSet(p, text) ==
  /\ StorageSetItem(store, p, text).ok
  /\ StorageSetItem(store, p, text).store # store
  /\ External(StorageSetItem(store, p, text).store)

\* a removal between two storage reads of a running keys() / values() / entries()
RaceRemove(p) ==
  /\ Running
  /\ enum.races < MaxRaces
  /\ p \in StorageKeys(store)
  /\ store' = StorageRemoveItem(store, p)
  /\ enum' = [enum EXCEPT !.races = enum.races + 1, !.gone = enum.gone \cup {p}]
  /\ scenario' = Mixed
  /\ live' = Unknown
  /\ UNCHANGED <<cfg, last, before>>

\* the call has returned or thrown: its caller takes the outcome and goes on
Resume ==
  /\ last # NoCall
  /\ ~Running
  /\ last' = NoCall
  /\ before' = <<>>
  /\ enum' = Idle
  /\ UNCHANGED <<cfg, store, scenario, live>>

Facade(i) ==
  \/ \E k \in Keys : GetItem(i, k)
  \/ \E k \in Keys, val \in Values : SetItem(i, k, val)
  \/ \E k \in Keys : RemoveItem(i, k)
  \/ Clear(i)
  \/ Length(i)
  \/ \E n \in 0..Quota : KeyAt(i, n)
  \/ \E op \in EnumOps : Start(op, i)

Steps == LoopTest \/ LoopBody \/ MapStep \/ Resume

\* one facade over a storage nobody else touches
Next == Facade(1) \/ Steps

Spec == Init /\ [][Next]_vars

\* two facades and the external actor, each acting between the others' calls
NextShared ==
  \/ \E i \in Inst : Facade(i)
  \/ Steps
  \/ \E p \in StorageKeys(store) : ExternalRemove(p)
  \/ \E p \in ExtKeys, text \in ExtTexts : ExternalSet(p, text)

SpecShared == InitShared /\ [][NextShared]_vars

\* one facade, and the external actor removing entries while it enumerates
NextRaces ==
  \/ Facade(1)
  \/ Steps
  \/ \E p \in StorageKeys(store) : RaceRemove(p)

SpecRaces == InitRaces /\ [][NextRaces]_vars

(***************************************************************************)
(* Properties.                                                              *)
(***************************************************************************)
Ended == last.op # "none" /\ last.result.kind # "pending"
Returned == last.result.kind = "return"
Me == cfg[last.inst]
Texts == {Stringify(val) : val \in Values}

\* decrypt undoes encrypt on every serialised text
InversePair(c) ==
  \A text \in Texts :
    /\ Encrypt(c, text).ok
    /\ Decrypt(c, Encrypt(c, text).out) = Applied(text)

PhysicalKeys(c) == {Hash(c, k).out : k \in {x \in Keys : Hash(c, x).ok}}

\* t(t(x)) = t(x) on the logical keys and on their images
Idempotent(c) ==
  /\ \A k \in Keys : Hash(c, k).ok
  /\ \A k \in Keys \cup PhysicalKeys(c) : Hash(c, Hash(c, k).out) = Hash(c, k)

Written == DOMAIN scenario.map
WrittenJson == \A k \in Written : JsonRepresentable(scenario.map[k])
InjectiveOnWritten(c) ==
  \A k1, k2 \in Written : Hash(c, k1) = Hash(c, k2) => k1 = k2

\* the value values() / entries() produced at position n
ValueAt(n) ==
  IF last.op = "values" THEN last.result.value[n] ELSE last.result.value[n][2]

\* C1: after a successful setItem(k, v) of a JSON-representable v by an
\* instance whose decrypt inverts its encrypt, getItem(k) on the store as
\* setItem left it returns v, whatever calls came before.
RoundTrip ==
  (last.op = "setItem" /\ Returned /\ JsonRepresentable(last.value)
     /\ InversePair(Me))
  => getItem(Me, store, last.key) = Return(last.value)

RoundTripWitness ==
  /\ last.op = "setItem" /\ Returned
  /\ Me = Opt("salt", "rot")
  /\ last.value = ObjXY
  /\ StorageGetItem(before, "a#").found
  /\ last.key = "a"

RemoveIdempotent ==
  (last.op = "removeItem" /\ Hash(Me, last.key).ok)
  => /\ Returned
     /\ getItem(Me, store, last.key) = Return(JNull)
     /\ removeItem(Me, store, last.key) = Call(store, Return(JUndefined))

RemoveWitness ==
  /\ last.op = "removeItem" /\ Returned
  /\ Hash(Me, last.key).out \in StorageKeys(before)
  /\ Len(store) = 1

\* C4: after clear() on either instance, length is 0 and getItem(k) returns
\* null on every instance for every logical key, whoever wrote the entries.
ClearEmpties ==
  last.op = "clear"
  => /\ Returned
     /\ length(store) = 0
     /\ \A i \in Inst, k \in Keys :
          Hash(cfg[i], k).ok => getItem(cfg[i], store, k) = Return(JNull)

ClearWitness ==
  /\ last.op = "clear" /\ last.inst = 1
  /\ cfg = <<Defaults, Opt("salt", "rot")>>
  /\ StorageKeys(before) = {"A#", "z"}

\* C5 as stated: with an idempotent key transform and decrypt inverting
\* encrypt, entries() after writing N distinct logical keys into an empty
\* store returns N pairs, each holding the value written.
EntriesReturnWritten ==
  (last.op = "entries" /\ Ended /\ scenario.state = "pure" /\ ~scenario.removed
     /\ Idempotent(Me) /\ InversePair(Me) /\ WrittenJson)
  => /\ Returned
     /\ Len(last.result.value) = Cardinality(Written)
     /\ \A n \in DOMAIN last.result.value :
          \E k \in Written :
            last.result.value[n] = <<Hash(Me, k).out, scenario.map[k]>>
     /\ \A k \in Written :
          \E n \in DOMAIN last.result.value :
            last.result.value[n] = <<Hash(Me, k).out, scenario.map[k]>>

\* C5 amended: the same, provided the key transform maps the N written keys
\* to N distinct physical keys.
EntriesReturnWrittenInjective ==
  (last.op = "entries" /\ Ended /\ scenario.state = "pure" /\ ~scenario.removed
     /\ Idempotent(Me) /\ InversePair(Me) /\ WrittenJson
     /\ InjectiveOnWritten(Me))
  => /\ Returned
     /\ Len(last.result.value) = Cardinality(Written)
     /\ \A n \in DOMAIN last.result.value :
          \E k \in Written :
            last.result.value[n] = <<Hash(Me, k).out, scenario.map[k]>>
     /\ \A k \in Written :
          \E n \in DOMAIN last.result.value :
            last.result.value[n] = <<Hash(Me, k).out, scenario.map[k]>>

EntriesWitness ==
  /\ last.op = "entries" /\ Returned
  /\ Me = Opt("fold", "rot")
  /\ Written = {"A", "a#"}
  /\ WrittenJson
  /\ ~scenario.removed
  /\ Len(last.result.value) = 2

\* C6 as stated: with a non-idempotent key transform t, the value values()
\* and entries() produce for a physical key p is null whenever t(p) # p.
RehashedKeyMisses ==
  (last.op \in {"values", "entries"} /\ Returned /\ ~Idempotent(Me))
  => \A n \in DOMAIN last.keys :
       Hash(Me, last.keys[n]).out # last.keys[n] => ValueAt(n) = JNull

\* C6 amended: the value produced for p is what is stored at t(p): null when
\* no entry is stored at t(p), and the decoded entry of t(p) when there is
\* one.
RehashedKeyReadsImage ==
  (last.op \in {"values", "entries"} /\ Returned /\ ~Idempotent(Me))
  => \A n \in DOMAIN last.keys :
       LET raw == StorageGetItem(store, Hash(Me, last.keys[n]).out) IN
       ValueAt(n) = IF raw.found THEN Parse(Decrypt(Me, raw.it).out).val
                    ELSE JNull

RehashedWitness ==
  /\ last.op = "values" /\ Returned
  /\ Me = Opt("salt", "rot")
  /\ last.keys = <<"a#", "a##">>
  /\ last.result.value = <<StrHi, JNull>>

\* C7: after a successful setItem(k, v) the store holds exactly
\* encrypt(stringify(v)) at hash(k), once, every other entry is as before,
\* and the logical key or the plain serialised text is stored only when
\* hash, respectively encrypt, maps it to itself.
SetItemStores ==
  (last.op = "setItem" /\ Returned)
  => LET h == Hash(Me, last.key).out
         plain == Stringify(last.value)
         text == Encrypt(Me, plain).out
     IN /\ StorageGetItem(store, h) = Found(text)
        /\ Cardinality({n \in DOMAIN store : store[n].key = h}) = 1
        /\ \A p \in (StorageKeys(store) \cup StorageKeys(before)) \ {h} :
             StorageGetItem(store, p) = StorageGetItem(before, p)
        /\ (last.key \in StorageKeys(store) \ StorageKeys(before)) => h = last.key
        /\ StorageGetItem(store, h) = Found(plain) => text = plain

SetItemWitness ==
  /\ last.op = "setItem" /\ Returned
  /\ Me = Opt("salt", "rot")
  /\ last.key = "a" /\ last.value = StrHi
  /\ StorageGetItem(before, "a#") = Found(RotL(Stringify(ObjXY)))
  /\ Len(before) = 2

\* C8: with no external mutation, length is the number of physical keys
\* written and not removed since, and keys() returns the store's keys, each
\* once, in the store's order; they are physical keys.
KeysListStore ==
  /\ live.known => /\ length(store) = Cardinality(live.keys)
                   /\ StorageKeys(store) = live.keys
  /\ (last.op = "keys" /\ Ended /\ live.known)
     => /\ Returned
        /\ last.result.value = [n \in DOMAIN store |-> store[n].key]
        /\ Len(last.result.value) = length(store)
        /\ \A m, n \in DOMAIN last.result.value :
             last.result.value[m] = last.result.value[n] => m = n
        /\ \A n \in DOMAIN last.result.value :
             last.result.value[n] \in PhysicalKeys(Me)

KeysWitness ==
  /\ last.op = "keys" /\ Returned
  /\ Me.hash = "salt"
  /\ scenario.removed
  /\ last.result.value = <<"a##", "a#">>

\* C9: a throw of hash, encrypt or decrypt, a text that is not JSON, and a
\* write the store rejects each end the getItem / setItem / removeItem call
\* with that error, never with a value, and a call that throws leaves the
\* backing store as it was.
FailuresSurface ==
  last.op \in {"getItem", "setItem", "removeItem"}
  => LET h == Hash(Me, last.key)
         raw == StorageGetItem(before, h.out)
         dec == Decrypt(Me, raw.it)
         enc == Encrypt(Me, Stringify(last.value))
     IN /\ ~h.ok => last.result = Throw("hash")
        /\ (last.op = "getItem" /\ h.ok /\ raw.found /\ ~dec.ok)
             => last.result = Throw("decrypt")
        /\ (last.op = "getItem" /\ h.ok /\ raw.found /\ dec.ok /\ ~Parse(dec.out).ok)
             => last.result = Throw("SyntaxError")
        /\ (last.op = "setItem" /\ h.ok /\ ~enc.ok)
             => last.result = Throw("encrypt")
        /\ (last.op = "setItem" /\ h.ok /\ enc.ok
              /\ ~StorageSetItem(before, h.out, enc.out).ok)
             => last.result = Throw("QuotaExceededError")
        /\ last.result.kind = "throw" => store = before

FailuresWitness ==
  /\ last.op = "getItem"
  /\ last.result = Throw("SyntaxError")
  /\ Me.cipher = "mismatch"
  /\ Len(store) = 2

\* C10: when the external actor removes entries while keys(), values() or
\* entries() runs, a removed entry contributes no null value and no
\* [key, null] pair to the values() / entries() that returns.
RemovedEntriesSkipped ==
  (last.op \in {"values", "entries"} /\ Returned)
  => \A n \in DOMAIN last.keys :
       ~ /\ last.keys[n] \in enum.gone
         /\ ValueAt(n) = JNull
         /\ getItem(Me, before, last.keys[n]).kind = "return"
         /\ getItem(Me, before, last.keys[n]) # Return(JNull)

=============================================================================
